---- MODULE Spec2Model ----
(***************************************************************************)
(* The ingestion pipeline of the telecom log analysis backend:             *)
(* python_backend/app.py (upload_log, upload_pcap, process_log_file,       *)
(* process_pcap_file) over services/storage.py (MemStorage),               *)
(* services/llm_service.py (LLMService), services/milvus_service.py        *)
(* (MilvusService) and services/pcap_analyzer.py (PcapAnalyzer).           *)
(*                                                                         *)
(* Every upload request is served by its own thread of the Flask server    *)
(* and starts one background thread for the pipeline run; MemStorage is    *)
(* shared by all of them and takes no lock.  A step of the model is one    *)
(* access to the shared storage (or one external call) of one thread:      *)
(* create_log and create_analysis_result are the four accesses of their    *)
(* code (read the counter, read it again, write it, store the record), and *)
(* update_log_status is two (look the log up, write its field), so that    *)
(* two threads can draw the same id and a record can be overwritten.       *)
(* create_activity has the same code shape; Spec takes it as one step       *)
(* (activity ids are read by no handler of the pipeline), which leaves out *)
(* the runs in which two activities draw the same id and one is lost.      *)
(* ActivitiesSpec has those runs: it tells the four accesses of            *)
(* create_activity apart and takes the other two creations as one step.    *)
(* The functions of PcapAnalyzer that the pipeline calls as a whole are    *)
(* run on their own inputs in ConversationsSpec and AnomaliesSpec.         *)
(***************************************************************************)
EXTENDS Integers, Sequences, FiniteSets, TLC

\* Largest number of segments the content of an uploaded log yields.
MaxChunks == 2

\* The upload requests (each with its pipeline run), numbered as they arrive.
Uploads == {1, 2}

VARIABLES
    logs,                 \* MemStorage.logs: log id -> log object (the upload that built it)
    processingStatus,     \* log object -> its "processingStatus" field
    log_id_counter,       \* MemStorage.log_id_counter
    analysis_results,     \* MemStorage.analysis_results: result id -> record
    analysis_id_counter,  \* MemStorage.analysis_id_counter
    embeddings,           \* MemStorage.embeddings: embedding id -> record
    activities,           \* MemStorage.activities: activity id -> record
    activity_id_counter,  \* MemStorage.activity_id_counter
    mock_mode,            \* LLMService.mock_mode
    thread,               \* per upload: position and locals of its request / pipeline thread
    analyzer_pc,          \* PcapAnalyzer: which of its functions runs, and how far it is
    seen,                 \* _analyze_conversations: packets of the capture processed so far
    conversations,        \* _analyze_conversations: its dict, as the items in insertion order
    conv_list,            \* _analyze_conversations: the list it returns
    capture,              \* _detect_anomalies: its packets, as packet kind -> number of packets
    protocol_stats,       \* _detect_anomalies: the protocol_stats it is given
    anomalies,            \* _detect_anomalies: the list it returns
    packets,              \* analyze_pcap: the packets rdpcap read
    basic_stats,          \* _get_basic_stats: the dict it returns, empty before
    parser_pc,            \* LogParser: which of its functions runs
    content,              \* LogParser: the text it is given
    max_chunk_size,       \* segment_log_for_embedding: its max_chunk_size
    segments,             \* segment_log_for_embedding: the list it returns
    valid,                \* is_valid_telecom_log: what it returns, FALSE before
    parsed,               \* parse_line: what it returns
    random_state,         \* the generator of the random module: its seed and draws so far
    mock_call,            \* per caller: position and locals of its mock generator call
    uploadedAt,           \* log object -> its "uploadedAt" field: type and time
    now,                  \* datetime.now()
    query,                \* get_all_logs: the calls made and what the last one gave
    job,                  \* LLMFineTuningService.jobs: the job that was started
    simulation            \* _simulate_job_progress: position and loop variables of its thread

analyzer == <<analyzer_pc, seen, conversations, conv_list, capture, protocol_stats, anomalies>>

\* The capture and its basic statistics.
basics == <<packets, basic_stats>>

\* The arguments and results of LogParser.
parser == <<parser_pc, content, max_chunk_size, segments, valid, parsed>>

\* The process-wide random generator and the calls that use it.
mocks == <<random_state, mock_call>>

\* The uploadedAt fields of the stored logs and the queries for all logs.
queries == <<uploadedAt, now, query>>

\* The fine-tuning job and the thread that simulates its progress.
tuning == <<job, simulation>>

\* The services that neither the analyzer nor the parser touches.
aside == <<mocks, queries, tuning>>

\* The state of the services beside the pipeline and the analyzer's loops.
services == <<basics, parser, aside>>

vars == <<logs, processingStatus, log_id_counter, analysis_results, analysis_id_counter,
          embeddings, activities, activity_id_counter, mock_mode, thread, analyzer,
          services>>

pipeline == <<logs, processingStatus, log_id_counter, analysis_results, analysis_id_counter,
              embeddings, activities, activity_id_counter, mock_mode, thread>>

storage == <<logs, processingStatus, log_id_counter, analysis_results, analysis_id_counter,
             embeddings, activities, activity_id_counter>>

EmptyDict == [k \in {} |-> 0]

\* Python's None where a dict is expected.
None == [k \in {} |-> 0]

Statuses == {"pending", "processing", "completed", "completed_without_vectors", "error"}
TerminalStatuses == {"completed", "completed_without_vectors", "error"}

-----------------------------------------------------------------------------
(* The program of one upload: the stages of the request handler and of the *)
(* background thread it starts, in the order of the code.                  *)

\* Stages that are a MemStorage.create_log or create_analysis_result call
\* (four steps each).
CreateStages == {"create_log", "create_result", "create_error_result"}

\* Stages that are a MemStorage.create_activity call.
ActivityStages == {"upload_activity", "processing_activity", "analysis_activity",
                   "error_activity"}

\* Stages that are a MemStorage.update_log_status call (two steps each).
StatusStages == {"set_processing", "set_completed", "set_without_vectors", "set_error"}

\* The status an update_log_status stage writes.
StatusOfStage(stage) ==
    CASE stage = "set_processing" -> "processing"
      [] stage = "set_completed" -> "completed"
      [] stage = "set_without_vectors" -> "completed_without_vectors"
      [] stage = "set_error" -> "error"

\* The dict a create_log / create_analysis_result stage stores into.
StoreOfStage(stage) ==
    IF stage = "create_log" THEN "logs" ELSE "analysis_results"

\* The stage that follows a storage call in upload_log / upload_pcap,
\* process_log_file and process_pcap_file.
After(stage, kind) ==
    CASE stage = "create_log" -> "upload_activity"
      [] stage = "upload_activity" -> "set_processing"
      [] stage = "set_processing" -> "processing_activity"
      [] stage = "processing_activity" ->
            IF kind = "log" THEN "analyze_log" ELSE "analyze_pcap"
      [] stage = "create_result" ->
            IF kind = "log" THEN "segment" ELSE "set_completed"
      [] stage = "set_completed" -> "analysis_activity"
      [] stage = "set_without_vectors" -> "analysis_activity"
      [] stage = "analysis_activity" -> "done"
      [] stage = "create_error_result" -> "set_error"
      [] stage = "set_error" -> "error_activity"
      [] stage = "error_activity" -> "done"

\* The activity_data dict a create_activity stage passes.
ActivityData(stage, t) ==
    CASE stage = "upload_activity" ->
            [logId |-> t.log_id, activityType |-> "upload",
             description |-> <<IF t.kind = "log" THEN "Log uploaded" ELSE "PCAP file uploaded", "">>,
             status |-> "completed"]
      [] stage = "processing_activity" ->
            [logId |-> t.log_id, activityType |-> "processing",
             description |-> <<IF t.kind = "log" THEN "Log processing started"
                                                 ELSE "PCAP analysis started", "">>,
             status |-> "in_progress"]
      [] stage = "analysis_activity" ->
            [logId |-> t.log_id, activityType |-> "analysis",
             description |-> <<IF t.kind = "log" THEN "Log analysis completed"
                                                 ELSE "PCAP analysis completed", "">>,
             status |-> "completed"]
      [] stage = "error_activity" ->
            [logId |-> t.log_id, activityType |-> "error",
             description |-> <<IF t.kind = "log" THEN "Error processing log: "
                                                 ELSE "Error analyzing PCAP: ", t.err>>,
             status |-> "error"]

\* The result_data dict a create_analysis_result stage passes.
ResultData(stage, t) ==
    IF stage = "create_result"
    THEN [logId |-> t.log_id, summary |-> <<"llm summary", "">>,
          resolutionStatus |-> "pending"]
    ELSE [logId |-> t.log_id, summary |-> <<"Failed to analyze PCAP file: ", t.err>>,
          resolutionStatus |-> "pending"]

-----------------------------------------------------------------------------
(* Pure parts of the services.                                             *)

SubExtractors == {"basic_stats", "protocol_stats", "conversations", "flows", "anomalies"}
\* The steps of analyze_pcap, in the order it runs them.
PcapSteps == <<"read", "basic_stats", "protocol_stats", "conversations", "flows", "anomalies">>
\* _analyze_protocols and _analyze_flows wrap their body in try/except and
\* return an empty section; the other steps let the exception out.
CaughtInside == {"protocol_stats", "flows"}

\* PcapAnalyzer.analyze_pcap when the steps in `fails` raise: the step whose
\* exception leaves analyze_pcap, "none" when it returns a report.
RECURSIVE FirstRaise(_, _)
FirstRaise(fails, i) ==
    IF i > Len(PcapSteps) THEN "none"
    ELSE IF PcapSteps[i] \in fails /\ PcapSteps[i] \notin CaughtInside THEN PcapSteps[i]
    ELSE FirstRaise(fails, i + 1)

analyze_pcap(fails) == FirstRaise(fails, 1)

\* Positional parameters of MilvusService.insert_embeddings after self:
\* log_id, text_segments, vectors.
InsertParams == 3
\* Positional arguments of the call in process_log_file: log_id, embedding_data.
InsertArgs == 2

\* MilvusService.insert_embeddings called with nargs arguments, the store being
\* reachable or not: the call cannot be bound when nargs differs from the
\* parameters; the body returns ids in mock mode, after an insert, and also
\* after a failed insert (its own except clause).
insert_embeddings(nargs, store_up) ==
    IF nargs # InsertParams THEN "TypeError" ELSE "ids"

-----------------------------------------------------------------------------
(* PcapAnalyzer._analyze_conversations.  An IP address is the Python string *)
(* scapy gives, here the sequence of its character codes; the dict of      *)
(* conversations is the sequence of its values in insertion order, each     *)
(* with its key.  packet.time is a whole number of seconds; a rate is the   *)
(* number of hundredths round(x, 2) keeps.  The ISO texts of start_time and *)
(* end_time in the returned list are left out.                              *)

\* Largest number of packets of a capture.
MaxPackets == 3

\* "1.2", "1.10" and "2.1": "1.10" < "1.2" as strings.
Addresses == {<<49, 46, 50>>, <<49, 46, 49, 48>>, <<50, 46, 49>>}

\* packet.time of the packets of a capture.
Times == {1, 2}

\* The packets captured at a time: with or without an IP layer, len(packet)
\* and packet.time.
PacketsAt(time) ==
    [has_ip : {TRUE}, src : Addresses, dst : Addresses, len : {60, 1500}, time : {time}]
        \cup [has_ip : {FALSE}, src : {<< >>}, dst : {<< >>}, len : {60}, time : {time}]

Packets == UNION {PacketsAt(time) : time \in Times}

\* `a < b` on Python strings.
RECURSIVE StrLess(_, _)
StrLess(a, b) ==
    IF b = << >> THEN FALSE
    ELSE IF a = << >> THEN TRUE
    ELSE IF Head(a) # Head(b) THEN Head(a) < Head(b)
    ELSE StrLess(Tail(a), Tail(b))

\* f"{a}_{b}".
Underscored(a, b) == a \o <<95>> \o b

\* A key that keeps the order of source and destination.
conv_key_directed(ip_src, ip_dst) == Underscored(ip_src, ip_dst)

\* conv_key = f"{ip_src}_{ip_dst}" if ip_src < ip_dst else f"{ip_dst}_{ip_src}"
conv_key(ip_src, ip_dst) ==
    IF StrLess(ip_src, ip_dst) THEN Underscored(ip_src, ip_dst)
    ELSE Underscored(ip_dst, ip_src)

\* A new conversation whose ip_a is the source of its first packet.
new_conversation_from_source(ip_src, ip_dst, time) ==
    [key |-> conv_key(ip_src, ip_dst),
     ip_a |-> ip_src, ip_b |-> ip_dst,
     packets |-> 0, bytes |-> 0, start_time |-> time, end_time |-> time,
     a_to_b_packets |-> 0, b_to_a_packets |-> 0, a_to_b_bytes |-> 0, b_to_a_bytes |-> 0]

\* The dict entry made for a key that is not in conversations yet.
new_conversation(ip_src, ip_dst, time) ==
    [key |-> conv_key(ip_src, ip_dst),
     ip_a |-> IF StrLess(ip_src, ip_dst) THEN ip_src ELSE ip_dst,
     ip_b |-> IF StrLess(ip_src, ip_dst) THEN ip_dst ELSE ip_src,
     packets |-> 0, bytes |-> 0, start_time |-> time, end_time |-> time,
     a_to_b_packets |-> 0, b_to_a_packets |-> 0, a_to_b_bytes |-> 0, b_to_a_bytes |-> 0]

\* Direction counters that tell the directions apart by `ip_src < ip_dst`.
count_direction_by_order(conv, p) ==
    IF StrLess(p.src, p.dst)
    THEN [conv EXCEPT !.a_to_b_packets = @ + 1, !.a_to_b_bytes = @ + p.len]
    ELSE IF StrLess(p.dst, p.src)
    THEN [conv EXCEPT !.b_to_a_packets = @ + 1, !.b_to_a_bytes = @ + p.len]
    ELSE conv

\* "Direction-specific stats": `if ip_src == conv["ip_a"]: ... else: ...`.
count_direction(conv, p) ==
    IF p.src = conv.ip_a
    THEN [conv EXCEPT !.a_to_b_packets = @ + 1, !.a_to_b_bytes = @ + p.len]
    ELSE [conv EXCEPT !.b_to_a_packets = @ + 1, !.b_to_a_bytes = @ + p.len]

\* The place of a key in conversations, 0 when it is not in.
KeyIndex(convs, key) ==
    IF \E i \in 1..Len(convs) : convs[i].key = key
    THEN CHOOSE i \in 1..Len(convs) : convs[i].key = key
    ELSE 0

\* One turn of the loop over the packets.
process_packet(convs, p) ==
    IF ~p.has_ip THEN convs
    ELSE LET key == conv_key(p.src, p.dst)
             with_key == IF KeyIndex(convs, key) = 0
                         THEN Append(convs, new_conversation(p.src, p.dst, p.time))
                         ELSE convs
             i == KeyIndex(with_key, key)
             counted == [with_key[i] EXCEPT !.packets = @ + 1, !.bytes = @ + p.len,
                                            !.end_time = IF @ < p.time THEN p.time ELSE @]
         IN [with_key EXCEPT ![i] = count_direction(counted, p)]

\* What a division that meets a zero divisor leaves of the function around it.
ZeroDivisionError == [raised |-> "ZeroDivisionError"]

\* round(a / b, 2) for a >= 0 and b > 0, in hundredths (a tie goes to the even
\* hundredth).
Round2(a, b) ==
    LET q == (100 * a) \div b
        r == (100 * a) % b
    IN IF 2 * r > b \/ (2 * r = b /\ q % 2 = 1) THEN q + 1 ELSE q

\* a / b.
Divide(a, b) == IF b = 0 THEN ZeroDivisionError ELSE [hundredths |-> Round2(a, b)]

\* "Convert to list and add derived stats", one conversation: the entry of
\* conv_list, {**conv, "duration": ..., ...}.
derived_stats(conv) ==
    LET duration == conv.end_time - conv.start_time
        packets_per_sec == IF duration > 0 THEN Divide(conv.packets, duration)
                           ELSE [hundredths |-> 0]
        bytes_per_sec == IF duration > 0 THEN Divide(conv.bytes, duration)
                         ELSE [hundredths |-> 0]
    IN IF ZeroDivisionError \in {packets_per_sec, bytes_per_sec} THEN ZeroDivisionError
       ELSE conv @@ [duration |-> duration,
                     packets_per_sec |-> packets_per_sec.hundredths,
                     bytes_per_sec |-> bytes_per_sec.hundredths]

\* conv_list.sort(key=lambda x: x["bytes"], reverse=True): a stable sort.
RECURSIVE InsertByBytes(_, _)
InsertByBytes(sorted, conv) ==
    IF sorted = << >> THEN <<conv>>
    ELSE IF Head(sorted).bytes >= conv.bytes
         THEN <<Head(sorted)>> \o InsertByBytes(Tail(sorted), conv)
         ELSE <<conv>> \o sorted

RECURSIVE SortByBytes(_)
SortByBytes(convs) ==
    IF convs = << >> THEN << >>
    ELSE InsertByBytes(SortByBytes(SubSeq(convs, 1, Len(convs) - 1)), convs[Len(convs)])

\* conv_list[:50]
TopConversations == 50

\* The list _analyze_conversations returns for its dict; the exception alone
\* when a division raises.
top_conversations(convs) ==
    LET with_stats == [i \in DOMAIN convs |-> derived_stats(convs[i])]
    IN IF \E i \in DOMAIN convs : with_stats[i] = ZeroDivisionError
       THEN <<ZeroDivisionError>>
       ELSE LET sorted == SortByBytes(with_stats)
            IN SubSeq(sorted, 1, IF Len(sorted) < TopConversations THEN Len(sorted)
                                 ELSE TopConversations)

-----------------------------------------------------------------------------
(* PcapAnalyzer._get_basic_stats and analyze_pcap's two uses of the packet  *)
(* list.  The ISO texts of start_time and end_time are left out.            *)

RECURSIVE SumOfSizes(_)
SumOfSizes(pkts) ==
    IF pkts = << >> THEN 0 ELSE Head(pkts).len + SumOfSizes(Tail(pkts))

\* Basic statistics that divide by every duration.
_get_basic_stats_unguarded(pkts) ==
    LET total_packets == Len(pkts)
    IN IF total_packets = 0
       THEN [total_packets |-> 0, capture_duration |-> 0,
             average_packet_size |-> 0, average_packets_per_second |-> 0]
       ELSE LET start_time == pkts[1].time
                end_time == pkts[total_packets].time
                duration == IF total_packets > 1 THEN end_time - start_time ELSE 0
                avg_size == Divide(SumOfSizes(pkts), total_packets)
                packets_per_second == Divide(total_packets, duration)
            IN IF ZeroDivisionError \in {avg_size, packets_per_second}
               THEN ZeroDivisionError
               ELSE [total_packets |-> total_packets, capture_duration |-> duration,
                     average_packet_size |-> avg_size.hundredths,
                     average_packets_per_second |-> packets_per_second.hundredths,
                     total_bytes |-> SumOfSizes(pkts)]

\* _get_basic_stats(packets): the dict it returns, the rates in hundredths.
_get_basic_stats(pkts) ==
    LET total_packets == Len(pkts)
    IN IF total_packets = 0
       THEN [total_packets |-> 0, capture_duration |-> 0,
             average_packet_size |-> 0, average_packets_per_second |-> 0]
       ELSE LET start_time == pkts[1].time
                end_time == pkts[total_packets].time
                duration == IF total_packets > 1 THEN end_time - start_time ELSE 0
                avg_size == Divide(SumOfSizes(pkts), total_packets)
                packets_per_second == IF duration > 0 THEN Divide(total_packets, duration)
                                      ELSE [hundredths |-> 0]
            IN IF ZeroDivisionError \in {avg_size, packets_per_second}
               THEN ZeroDivisionError
               ELSE [total_packets |-> total_packets, capture_duration |-> duration,
                     average_packet_size |-> avg_size.hundredths,
                     average_packets_per_second |-> packets_per_second.hundredths,
                     total_bytes |-> SumOfSizes(pkts)]

\* `for packet in packets:` of _analyze_conversations, every turn.
RECURSIVE process_packets(_, _)
process_packets(convs, pkts) ==
    IF pkts = << >> THEN convs
    ELSE process_packets(process_packet(convs, Head(pkts)), Tail(pkts))

\* _analyze_conversations(packets).
_analyze_conversations(pkts) == top_conversations(process_packets(<< >>, pkts))

-----------------------------------------------------------------------------
(* LLMService.generate_mock_analysis and generate_mock_embedding.  Both     *)
(* seed the generator of the random module from the md5 of their text and   *)
(* build their result from the values they draw from it afterwards.  A      *)
(* drawn value is named by the seed of the generator and its place in the   *)
(* stream of that seed.                                                     *)

\* The threads that call a mock generator.
MockCallers == {1, 2}

MockTexts == {"text a", "text b"}

\* The draws of one call that are followed (generate_mock_embedding draws
\* 1536 values, generate_mock_analysis at least five).
MockDraws == 2

\* int(hashlib.md5(text.encode()).hexdigest(), 16) % (2**32)
md5_seed(text) == [md5 |-> text]

\* random.seed(seed): the generator restarts the stream of the seed.
seeded(seed) == [seed |-> seed, drawn |-> 0]

\* The generator after random.seed(seed) of a mock generator called with text.
seed_generator(text, state) == seeded(md5_seed(text))

\* random.uniform / randint / choice: the value drawn from a generator.
drawn_value(state) == [seed |-> state.seed, place |-> state.drawn + 1]

-----------------------------------------------------------------------------
(* MemStorage.get_all_logs.  The uploadedAt field of a log is a datetime or *)
(* the str that isoformat() makes of it; both order as their times do.      *)

\* Largest number of get_all_logs calls.
MaxQueries == 3

\* logs.sort(key=lambda x: x["uploadedAt"], reverse=True) compares a str with
\* a datetime: the sort raises TypeError.
SortRaises(ids, fields) ==
    \E i, j \in ids : fields[logs[i]].type # fields[logs[j]].type

\* The ids of the sorted list: latest first, and logs of equal time in the
\* order of the dict (a stable sort).
SortedByUploadedAt(ids, fields) ==
    CHOOSE order \in [1..Cardinality(ids) -> ids] :
        /\ \A i \in ids : \E k \in DOMAIN order : order[k] = i
        /\ \A k, l \in DOMAIN order :
              k < l => \/ fields[logs[order[k]]].at > fields[logs[order[l]]].at
                       \/ /\ fields[logs[order[k]]].at = fields[logs[order[l]]].at
                          /\ order[k] < order[l]

\* get_all_logs(): whether it raises, the ids of the list it returns, and
\* the uploadedAt fields it leaves in the stored logs: the loop gives every
\* log the isoformat() of its uploadedAt, which a str does not have.
get_all_logs(ids, fields) ==
    IF SortRaises(ids, fields)
    THEN [raised |-> "TypeError", logs |-> << >>, fields |-> fields]
    ELSE IF \E i \in ids : fields[logs[i]].type = "str"
    THEN [raised |-> "AttributeError", logs |-> << >>, fields |-> fields]
    ELSE [raised |-> "none", logs |-> SortedByUploadedAt(ids, fields),
          fields |-> [u \in DOMAIN fields |->
                         IF \E i \in ids : logs[i] = u
                         THEN [fields[u] EXCEPT !.type = "str"] ELSE fields[u]]]

-----------------------------------------------------------------------------
(* LLMFineTuningService.start_fine_tuning and _simulate_job_progress.  Of   *)
(* the job the status, the progress and whether loss and metrics are set    *)
(* are kept; times, log lines and the values of the losses are left out.    *)

\* Largest number of examples of a dataset.
MaxExamples == 4

\* Largest num_train_epochs of a configuration.
MaxEpochs == 2

\* The cap of percentage_complete while the job runs.
RunningCap == 99

\* The parts of an epoch after which a log line is written.
LogParts == 4

\* job_info of start_fine_tuning after "Simulate starting the job".
started_job(example_count, epochs) ==
    [status |-> "running", metrics |-> "{}", loss |-> "None",
     current_epoch |-> 0, total_epochs |-> epochs,
     current_step |-> 0, total_steps |-> example_count * epochs,
     percentage_complete |-> 0, example_count |-> example_count]

\* steps_per_epoch = total_steps // total_epochs if total_epochs > 0 else 100
steps_per_epoch(j) ==
    IF j.total_epochs > 0 THEN j.total_steps \div j.total_epochs ELSE 100

\* min(99, int((current_step / total_steps) * 100)) if total_steps > 0 else 0
percentage(current_step, total_steps) ==
    IF total_steps > 0
    THEN LET whole == (current_step * 100) \div total_steps
         IN IF whole < RunningCap THEN whole ELSE RunningCap
    ELSE 0

\* `step == 1 or step % (steps_per_epoch // 4) == 0 or step == steps_per_epoch`
\* divides by zero.
LogLineRaises(step, per_epoch) == step # 1 /\ per_epoch \div LogParts = 0

\* "Complete the job" up to the final metrics.
completed_job(j) ==
    [j EXCEPT !.status = "completed", !.percentage_complete = 100,
              !.current_epoch = j.total_epochs, !.current_step = j.total_steps]

-----------------------------------------------------------------------------
(* LogParser.segment_log_for_embedding.  A text is the sequence of its      *)
(* tokens: "x" is one character that is no line boundary, "LF" and "CR" are *)
(* the line boundaries \n and \r, and "timestamp" is the characters of a    *)
(* timestamp that telecom_log_pattern finds, such as 2024-01-01 10:00:00.    *)

\* Largest number of tokens of a text.
MaxTextLen == 5

Tokens == {"x", "LF", "CR", "timestamp"}

\* The characters of a timestamp of telecom_log_pattern.
TimestampWidth == 19

\* The default of max_chunk_size.
DefaultChunkSize == 512

\* The values of max_chunk_size: below, at and above the length of a line
\* with a timestamp, and of two such lines.
ChunkSizes == {1, 2, 3, 20, 40}

\* len(s)
RECURSIVE StrLen(_)
StrLen(s) ==
    IF s = << >> THEN 0
    ELSE (IF Head(s) = "timestamp" THEN TimestampWidth ELSE 1) + StrLen(Tail(s))

\* The places where a line boundary of s ends: every \n, and every \r that no
\* \n follows (\r\n is one boundary).
BoundaryEnds(s) ==
    {i \in DOMAIN s : \/ s[i] = "LF"
                      \/ s[i] = "CR" /\ ~(i < Len(s) /\ s[i + 1] = "LF")}

\* The place where the line boundary that ends at i starts.
BoundaryStart(s, i) ==
    IF s[i] = "LF" /\ i > 1 /\ s[i - 1] = "CR" THEN i - 1 ELSE i

\* s.splitlines(): the lines without their boundaries; the characters after
\* the last boundary are a line when there are any.
splitlines(s) ==
    LET ends == BoundaryEnds(s)
        nth(k) == CHOOSE e \in ends : Cardinality({f \in ends : f <= e}) = k
        from(k) == IF k = 1 THEN 1 ELSE nth(k - 1) + 1
        closed == [k \in 1..Cardinality(ends) |->
                      SubSeq(s, from(k), BoundaryStart(s, nth(k)) - 1)]
        rest == SubSeq(s, from(Cardinality(ends) + 1), Len(s))
    IN IF rest = << >> THEN closed ELSE Append(closed, rest)

\* "\n".join(lines)
RECURSIVE JoinLines(_)
JoinLines(lines) ==
    IF lines = << >> THEN << >>
    ELSE IF Len(lines) = 1 THEN lines[1]
    ELSE lines[1] \o <<"LF">> \o JoinLines(Tail(lines))

\* The locals of segment_log_for_embedding before its loop.
NoSegments == [segments |-> << >>, current_segment |-> << >>, current_length |-> 0]

\* A loop body that keeps only the start of a line longer than max_chunk_size.
segment_line_truncating(st, line, max) ==
    LET line_length == StrLen(line)
        closed == IF st.current_length + line_length > max /\ st.current_segment # << >>
                  THEN [segments |-> Append(st.segments, JoinLines(st.current_segment)),
                        current_segment |-> << >>, current_length |-> 0]
                  ELSE st
        kept == IF line_length > max THEN <<Head(line)>> ELSE line
    IN [closed EXCEPT !.current_segment = Append(@, kept),
                      !.current_length = @ + StrLen(kept)]

\* `for line in lines:` one line.
segment_line(st, line, max) ==
    LET line_length == StrLen(line)
        closed == IF st.current_length + line_length > max /\ st.current_segment # << >>
                  THEN [segments |-> Append(st.segments, JoinLines(st.current_segment)),
                        current_segment |-> << >>, current_length |-> 0]
                  ELSE st
    IN [closed EXCEPT !.current_segment = Append(@, line),
                      !.current_length = @ + line_length]

RECURSIVE segment_lines(_, _, _)
segment_lines(st, lines, max) ==
    IF lines = << >> THEN st
    ELSE segment_lines(segment_line(st, Head(lines), max), Tail(lines), max)

\* segment_log_for_embedding(content, max_chunk_size)
segment_log_for_embedding(text, max) ==
    LET st == segment_lines(NoSegments, splitlines(text), max)
    IN IF st.current_segment # << >>
       THEN Append(st.segments, JoinLines(st.current_segment))
       ELSE st.segments

-----------------------------------------------------------------------------
(* LogParser.parse_line and parse_log.  A line is the sequence of its       *)
(* tokens: a timestamp in one of four shapes, "space" (one whitespace       *)
(* character), "INFO" (a word of capital letters), "info" (a word with      *)
(* small letters) and "[core]" (a word in square brackets).                  *)

\* Largest number of tokens of a line.
MaxLineLen == 4

\* 2024-01-01 10:00:00, 2024-01-01T10:00:00, Jan 12 10:00:00 and
\* 2024/01/01 10:00:00.
TimestampShapes == {"iso", "iso_T", "syslog", "slash"}

\* The tokens telecom_log_pattern finds.
TimestampTokens == TimestampShapes \cup {"timestamp"}

LineTokens == TimestampShapes \cup {"space", "INFO", "info", "[core]"}

\* line.strip() is empty.
IsBlank(line) == \A c \in DOMAIN line : line[c] = "space"

\* The five patterns in the order parse_line tries them: the timestamps the
\* first group matches, and the tokens the optional second and third groups
\* match (the groups of cisco_pattern need a colon that no token has).
Patterns ==
    <<[name |-> "standard", timestamps |-> {"iso", "iso_T"},
       levels |-> {"INFO"}, components |-> {"[core]"}],
      [name |-> "cisco", timestamps |-> {"syslog"},
       levels |-> {}, components |-> {}],
      [name |-> "nokia", timestamps |-> {"slash"},
       levels |-> {"INFO"}, components |-> {"[core]"}],
      [name |-> "huawei", timestamps |-> {"iso_T"},
       levels |-> {"INFO"}, components |-> {"[core]"}],
      [name |-> "ericsson", timestamps |-> {"iso"},
       levels |-> {"INFO", "info"}, components |-> {"INFO", "info"}]>>

\* s after the whitespace \s+ takes.
RECURSIVE DropSpaces(_)
DropSpaces(s) ==
    IF s # << >> /\ Head(s) = "space" THEN DropSpaces(Tail(s)) ELSE s

\* An optional group `(?:(...)\s+)?` at the start of s: the token it takes
\* ("None" when it takes nothing) and what is left of s.
OptionalGroup(s, accepted) ==
    IF Len(s) >= 2 /\ s[1] \in accepted /\ s[2] = "space"
    THEN [group |-> s[1], rest |-> DropSpaces(Tail(s))]
    ELSE [group |-> "None", rest |-> s]

\* pattern.match(line) and, on a match, the dict parse_line builds from its
\* groups; None when the pattern does not match.
match(pattern, line) ==
    IF Len(line) >= 2 /\ line[1] \in pattern.timestamps /\ line[2] = "space"
    THEN LET level == OptionalGroup(DropSpaces(Tail(line)), pattern.levels)
             component == OptionalGroup(level.rest, pattern.components)
         IN [text |-> line, timestamp |-> line[1], level |-> level.group,
             component |-> component.group, message |-> component.rest]
    ELSE None

\* `for pattern in patterns:` from the i-th pattern on, and `return None`.
RECURSIVE parse_line_from(_, _)
parse_line_from(line, i) ==
    IF i > Len(Patterns) THEN None
    ELSE IF match(Patterns[i], line) # None THEN match(Patterns[i], line)
    ELSE parse_line_from(line, i + 1)

parse_line(line) == parse_line_from(line, 1)

\* parse_log(content): the list it returns.
RECURSIVE parse_lines(_)
parse_lines(lines) ==
    IF lines = << >> THEN << >>
    ELSE IF IsBlank(Head(lines)) THEN parse_lines(Tail(lines))
    ELSE IF parse_line(Head(lines)) # None
         THEN <<parse_line(Head(lines))>> \o parse_lines(Tail(lines))
    ELSE <<[text |-> Head(lines), message |-> Head(lines)]>> \o parse_lines(Tail(lines))

parse_log(text) == parse_lines(splitlines(text))

-----------------------------------------------------------------------------
(* LogParser.is_valid_telecom_log.  Its texts have two more tokens: "space" *)
(* is one whitespace character and "keyword" is a telecom-domain word.      *)

\* "the first 20 non-empty lines"
SampleLines == 20

\* telecom_log_pattern.search(line)
HasTimestamp(line) == \E c \in DOMAIN line : line[c] \in TimestampTokens

\* [line for line in lines if line.strip()]
RECURSIVE NonBlank(_)
NonBlank(lines) ==
    IF lines = << >> THEN << >>
    ELSE IF IsBlank(Head(lines)) THEN NonBlank(Tail(lines))
    ELSE <<Head(lines)>> \o NonBlank(Tail(lines))

\* lines[:n]
FirstLines(lines, n) == SubSeq(lines, 1, IF Len(lines) < n THEN Len(lines) ELSE n)

\* is_valid_telecom_log(content): matches / len(lines) >= 0.5 is
\* 2 * matches >= len(lines).
is_valid_telecom_log(text) ==
    LET lines == FirstLines(NonBlank(splitlines(text)), SampleLines)
        matches == Cardinality({i \in DOMAIN lines : HasTimestamp(lines[i])})
    IN Len(lines) > 0 /\ 2 * matches >= Len(lines)

-----------------------------------------------------------------------------
(* PcapAnalyzer._detect_anomalies.  Its loops over the packets only count   *)
(* and sum, so the packets are given as the number of packets of each kind. *)
(* The description text of an anomaly is left out.                          *)

\* The kinds of packet: the TCP layer and its flags, the DNS layer and its qr
\* bit, len(packet), the flags and the fragment offset of the IP layer.
KindNames == {"syn", "syn_ack", "ack", "dns_big", "dns_small", "dns_query",
              "frag_mf", "frag_off"}

PlainPacket ==
    [has_tcp |-> FALSE, tcp_flags |-> 0, has_dns |-> FALSE, qr |-> 0, len |-> 60,
     has_ip |-> TRUE, ip_flags |-> 2, frag |-> 0]

PacketKind(name) ==
    CASE name = "syn" -> [PlainPacket EXCEPT !.has_tcp = TRUE, !.tcp_flags = 2]
      [] name = "syn_ack" -> [PlainPacket EXCEPT !.has_tcp = TRUE, !.tcp_flags = 18]
      [] name = "ack" -> [PlainPacket EXCEPT !.has_tcp = TRUE, !.tcp_flags = 16]
      [] name = "dns_big" -> [PlainPacket EXCEPT !.has_dns = TRUE, !.qr = 1, !.len = 600]
      [] name = "dns_small" -> [PlainPacket EXCEPT !.has_dns = TRUE, !.qr = 1, !.len = 400]
      [] name = "dns_query" -> [PlainPacket EXCEPT !.has_dns = TRUE, !.qr = 0, !.len = 600]
      [] name = "frag_mf" -> [PlainPacket EXCEPT !.ip_flags = 1, !.len = 1500]
      [] name = "frag_off" -> [PlainPacket EXCEPT !.ip_flags = 0, !.frag = 185]

\* The captures _detect_anomalies is run on.
Captures ==
    [syn : {0, 150}, syn_ack : {0, 10, 150}, ack : {0, 10},
     dns_big : {0, 50, 51}, dns_small : {0, 51}, dns_query : {0, 51},
     frag_mf : {0, 50, 51}, frag_off : {0, 50}]

\* The protocol_stats _analyze_protocols returns: the dict of its except
\* clause (and of an empty capture), captures without ICMP, and captures with
\* an ICMP count among the analyzed packets.
ProtocolStats ==
    [protocol_counts : {EmptyDict}, analyzed_packets : {0, 1000}]
        \cup {[protocol_counts |-> [p \in {"ICMP"} |-> ct[1]], analyzed_packets |-> ct[2]] :
                 ct \in {<<100, 300>>, <<101, 300>>, <<101, 1000>>, <<300, 1000>>,
                         <<301, 1000>>, <<600, 1000>>, <<601, 1000>>, <<400, 500>>}}

\* a & b on non-negative integers.
RECURSIVE BitAnd(_, _)
BitAnd(a, b) ==
    IF a = 0 \/ b = 0 THEN 0
    ELSE (a % 2) * (b % 2) + 2 * BitAnd(a \div 2, b \div 2)

\* The number of packets of the given kinds, and the sum of their lengths.
RECURSIVE Total(_, _)
Total(cap, names) ==
    IF names = {} THEN 0
    ELSE LET k == CHOOSE n \in names : TRUE
         IN cap[k] + Total(cap, names \ {k})

RECURSIVE TotalLen(_, _)
TotalLen(cap, names) ==
    IF names = {} THEN 0
    ELSE LET k == CHOOSE n \in names : TRUE
         IN cap[k] * PacketKind(k).len + TotalLen(cap, names \ {k})

SynFlag == 2
SynAckFlags == 18
FloodRatio == 3
FloodMinSyn == 100
FloodHighRatio == 10
IcmpMinCount == 100
DnsMinAvgSize == 500
DnsMinResponses == 50
MoreFragments == 1
FragMinCount == 100

\* "Check for potential SYN flood".
syn_flood(cap) ==
    LET syn_count == Total(cap, {k \in KindNames :
                        PacketKind(k).has_tcp /\ BitAnd(PacketKind(k).tcp_flags, SynFlag) # 0})
        syn_ack_count == Total(cap, {k \in KindNames :
                        PacketKind(k).has_tcp /\ BitAnd(PacketKind(k).tcp_flags, SynAckFlags) # 0})
    IN IF /\ syn_count > 0 /\ syn_ack_count > 0
          /\ syn_count > FloodRatio * syn_ack_count
          /\ syn_count > FloodMinSyn
       THEN <<[type |-> "SYN Flood",
               severity |-> IF syn_count > FloodHighRatio * syn_ack_count THEN "high"
                            ELSE "medium"]>>
       ELSE << >>

\* "Check for high rate of ICMP traffic": icmp_ratio > 0.3, and > 0.6 for high.
icmp_flood(stats) ==
    IF "ICMP" \in DOMAIN stats.protocol_counts /\ stats.analyzed_packets > 0
    THEN LET icmp_count == stats.protocol_counts["ICMP"]
             total_packets == stats.analyzed_packets
         IN IF 10 * icmp_count > 3 * total_packets /\ icmp_count > IcmpMinCount
            THEN <<[type |-> "ICMP Flood",
                    severity |-> IF 10 * icmp_count > 6 * total_packets THEN "high"
                                 ELSE "medium"]>>
            ELSE << >>
    ELSE << >>

\* "Check for DNS amplification": avg_dns_size = sum / len of the response sizes.
dns_amplification(cap) ==
    LET responses == {k \in KindNames : PacketKind(k).has_dns /\ PacketKind(k).qr = 1}
        count == Total(cap, responses)
    IN IF count > 0 /\ TotalLen(cap, responses) > DnsMinAvgSize * count
                    /\ count > DnsMinResponses
       THEN <<[type |-> "DNS Amplification", severity |-> "medium"]>>
       ELSE << >>

\* "Check for fragmentation".
ip_fragmentation(cap) ==
    LET frag_count == Total(cap, {k \in KindNames :
                         /\ PacketKind(k).has_ip
                         /\ \/ BitAnd(PacketKind(k).ip_flags, MoreFragments) # 0
                            \/ PacketKind(k).frag # 0})
    IN IF frag_count > FragMinCount
       THEN <<[type |-> "IP Fragmentation", severity |-> "low"]>>
       ELSE << >>

\* The rules chained so that only the first one that fires reports.
detect_anomalies_first_match(cap, stats) ==
    IF syn_flood(cap) # << >> THEN syn_flood(cap)
    ELSE IF icmp_flood(stats) # << >> THEN icmp_flood(stats)
    ELSE IF dns_amplification(cap) # << >> THEN dns_amplification(cap)
    ELSE ip_fragmentation(cap)

\* _detect_anomalies(packets, protocol_stats): the rules in their order.
detect_anomalies(cap, stats) ==
    syn_flood(cap) \o icmp_flood(stats) \o dns_amplification(cap) \o ip_fragmentation(cap)

-----------------------------------------------------------------------------

NewThread ==
    [pc |-> "request", sub |-> 1, kind |-> "none", nchunks |-> 0, log_id |-> 0,
     new_id |-> 0, tmp |-> 0, ref |-> 0, segmented |-> FALSE, attempts |-> 0,
     embedded |-> 0, store_up |-> FALSE, insert |-> "none", err |-> "none",
     wrote |-> "none"]

\* The services as app.py builds them, before the first request.
PipelineInit ==
    /\ logs = EmptyDict
    /\ processingStatus = [u \in Uploads |-> "none"]
    /\ log_id_counter = 1
    /\ analysis_results = EmptyDict
    /\ analysis_id_counter = 1
    /\ embeddings = EmptyDict
    /\ activities = EmptyDict
    /\ activity_id_counter = 1
    /\ mock_mode \in BOOLEAN
    /\ thread = [u \in Uploads |-> NewThread]

\* No function of the analyzer is running.
AnalyzerIdle ==
    /\ analyzer_pc = "idle"
    /\ seen = 0
    /\ conversations = << >>
    /\ conv_list = << >>
    /\ capture = [k \in KindNames |-> 0]
    /\ protocol_stats = [protocol_counts |-> EmptyDict, analyzed_packets |-> 0]
    /\ anomalies = << >>

\* No capture has been read.
StatsIdle ==
    /\ packets = << >>
    /\ basic_stats = EmptyDict

\* No function of the parser is running.
ParserIdle ==
    /\ parser_pc = "idle"
    /\ content = << >>
    /\ max_chunk_size = DefaultChunkSize
    /\ segments = << >>
    /\ valid = FALSE
    /\ parsed = None

\* No mock generator is running; the generator is seeded as at import.
MocksIdle ==
    /\ random_state = [seed |-> "os", drawn |-> 0]
    /\ mock_call = [c \in MockCallers |-> [pc |-> "idle", text |-> "", values |-> << >>]]

\* No log has an uploadedAt yet and get_all_logs has not been called.
QueriesIdle ==
    /\ uploadedAt = [u \in Uploads |-> None]
    /\ now = 1
    /\ query = [calls |-> 0, raised |-> "none", logs |-> << >>]

\* No fine-tuning job has been started.
TuningIdle ==
    /\ job = None
    /\ simulation = [pc |-> "none", epoch |-> 0, step |-> 0]

AsideIdle == MocksIdle /\ QueriesIdle /\ TuningIdle

ServicesIdle == StatsIdle /\ ParserIdle /\ AsideIdle

Init == PipelineInit /\ AnalyzerIdle /\ ServicesIdle

CounterOf(store) ==
    IF store = "logs" THEN log_id_counter ELSE analysis_id_counter

\* upload_log / upload_pcap up to the create_log call: a log must pass
\* is_valid_telecom_log, a capture must carry a capture file extension.
Upload(u) ==
    /\ thread[u].pc = "request"
    /\ \A v \in Uploads : v < u => thread[v].pc # "request"
    /\ \E kind \in {"log", "pcap"}, accepted \in BOOLEAN, n \in 1..MaxChunks :
          /\ kind = "pcap" => n = 1
          /\ ~accepted => n = 1
          /\ thread' = [thread EXCEPT ![u].pc = IF accepted THEN "create_log" ELSE "rejected",
                                      ![u].kind = kind,
                                      ![u].nchunks = IF kind = "log" /\ accepted THEN n ELSE 0]
    /\ UNCHANGED <<storage, mock_mode, analyzer, services>>

\* create_log / create_analysis_result: `x_id = self.x_id_counter`.
CreateRead1(u) ==
    /\ thread[u].pc \in CreateStages
    /\ thread[u].sub = 1
    /\ thread' = [thread EXCEPT ![u].new_id = CounterOf(StoreOfStage(thread[u].pc)),
                                ![u].sub = 2]
    /\ UNCHANGED <<storage, mock_mode, analyzer, services>>

\* create_log / create_analysis_result: `self.x_id_counter += 1`, the read.
CreateRead2(u) ==
    /\ thread[u].pc \in CreateStages
    /\ thread[u].sub = 2
    /\ thread' = [thread EXCEPT ![u].tmp = CounterOf(StoreOfStage(thread[u].pc)),
                                ![u].sub = 3]
    /\ UNCHANGED <<storage, mock_mode, analyzer, services>>

\* create_log / create_analysis_result: `self.x_id_counter += 1`, the write.
CreateWrite(u) ==
    /\ thread[u].pc \in CreateStages
    /\ thread[u].sub = 3
    /\ LET store == StoreOfStage(thread[u].pc)
           v == thread[u].tmp + 1
       IN /\ log_id_counter' = IF store = "logs" THEN v ELSE log_id_counter
          /\ analysis_id_counter' = IF store = "analysis_results" THEN v ELSE analysis_id_counter
    /\ thread' = [thread EXCEPT ![u].sub = 4, ![u].tmp = 0]
    /\ UNCHANGED <<logs, processingStatus, analysis_results, embeddings, activities,
                   activity_id_counter, mock_mode, analyzer, services>>

\* create_log / create_analysis_result: `self.xs[x_id] = x` and the return.
CreateStore(u) ==
    /\ thread[u].pc \in CreateStages
    /\ thread[u].sub = 4
    /\ LET t == thread[u]
           store == StoreOfStage(t.pc)
       IN /\ logs' = IF store = "logs" THEN (t.new_id :> u) @@ logs ELSE logs
          /\ processingStatus' = IF store = "logs"
                                 THEN [processingStatus EXCEPT ![u] = "pending"]
                                 ELSE processingStatus
          /\ analysis_results' = IF store = "analysis_results"
                                 THEN (t.new_id :> ResultData(t.pc, t)) @@ analysis_results
                                 ELSE analysis_results
          /\ thread' = [thread EXCEPT ![u].pc = After(t.pc, t.kind),
                                      ![u].sub = 1,
                                      ![u].new_id = 0,
                                      ![u].log_id = IF store = "logs" THEN t.new_id ELSE t.log_id]
    /\ UNCHANGED <<log_id_counter, analysis_id_counter, activities, activity_id_counter,
                   embeddings, mock_mode, analyzer, services>>

\* create_activity(activity_data): the activity gets the next id and is stored.
CreateActivity(u) ==
    /\ thread[u].pc \in ActivityStages
    /\ activities' = (activity_id_counter :> ActivityData(thread[u].pc, thread[u])) @@ activities
    /\ activity_id_counter' = activity_id_counter + 1
    /\ thread' = [thread EXCEPT ![u].pc = After(thread[u].pc, thread[u].kind)]
    /\ UNCHANGED <<logs, processingStatus, log_id_counter, analysis_results,
                   analysis_id_counter, embeddings, mock_mode, analyzer, services>>

\* update_log_status: `log = self.logs.get(log_id)`.
StatusGet(u) ==
    /\ thread[u].pc \in StatusStages
    /\ thread[u].sub = 1
    /\ thread' = [thread EXCEPT ![u].ref = IF thread[u].log_id \in DOMAIN logs
                                           THEN logs[thread[u].log_id] ELSE 0,
                                ![u].sub = 2]
    /\ UNCHANGED <<storage, mock_mode, analyzer, services>>

\* update_log_status: `if not log: return None`, `log["processingStatus"] = status`.
StatusSet(u) ==
    /\ thread[u].pc \in StatusStages
    /\ thread[u].sub = 2
    /\ processingStatus' = IF thread[u].ref = 0 THEN processingStatus
                           ELSE [processingStatus EXCEPT ![thread[u].ref] = StatusOfStage(thread[u].pc)]
    /\ thread' = [thread EXCEPT ![u].pc = After(thread[u].pc, thread[u].kind), ![u].sub = 1,
                                ![u].ref = 0, ![u].wrote = StatusOfStage(thread[u].pc)]
    /\ UNCHANGED <<logs, log_id_counter, analysis_results, analysis_id_counter, embeddings,
                   activities, activity_id_counter, mock_mode, analyzer, services>>

\* process_pcap_file: pcap_analyzer.analyze_pcap(file_path) and
\* generate_pcap_summary; an exception goes to the inner except clause.
AnalyzePcap(u) ==
    /\ thread[u].pc = "analyze_pcap"
    /\ \E fails \in SUBSET (SubExtractors \cup {"read"}) :
          LET raised == analyze_pcap(fails)
          IN thread' = [thread EXCEPT ![u].pc = IF raised = "none" THEN "analyze_log"
                                                ELSE "create_error_result",
                                      ![u].err = raised]
    /\ UNCHANGED <<storage, mock_mode, analyzer, services>>

\* LLMService.analyze_log: the mock analysis in mock mode; otherwise the
\* request, which raises when the service cannot be reached or answers with
\* another status than 200 (an unparsable answer falls back to the mock analysis).
AnalyzeLog(u) ==
    /\ thread[u].pc = "analyze_log"
    /\ \E outcome \in {"ok", "unreachable", "status"} :
          /\ mock_mode => outcome = "ok"
          /\ thread' = [thread EXCEPT
                ![u].pc = IF outcome = "ok" THEN "create_result"
                          ELSE IF thread[u].kind = "log" THEN "set_error"
                          ELSE "create_error_result",
                ![u].err = IF outcome = "ok" THEN "none" ELSE "llm " \o outcome]
    /\ UNCHANGED <<storage, mock_mode, analyzer, services>>

\* process_log_file: log_parser.segment_log_for_embedding(content).
Segment(u) ==
    /\ thread[u].pc = "segment"
    /\ thread' = [thread EXCEPT ![u].pc = "generate_embeddings", ![u].segmented = TRUE]
    /\ UNCHANGED <<storage, mock_mode, analyzer, services>>

\* generate_embeddings leaving its loop after the first embedding.
generate_embeddings_first_only(t, ok) ==
    IF t.embedded >= 1 THEN [t EXCEPT !.pc = "insert_embeddings"]
    ELSE IF ok THEN [t EXCEPT !.attempts = @ + 1, !.embedded = @ + 1]
    ELSE [t EXCEPT !.attempts = @ + 1, !.pc = "set_without_vectors"]

\* LLMService.generate_embeddings: one turn of its loop, or its return.  A
\* failing generate_embedding raises out of the loop into the except clause
\* of process_log_file.
generate_embeddings(t, ok) ==
    IF t.embedded = t.nchunks THEN [t EXCEPT !.pc = "insert_embeddings"]
    ELSE IF ok THEN [t EXCEPT !.attempts = @ + 1, !.embedded = @ + 1]
    ELSE [t EXCEPT !.attempts = @ + 1, !.pc = "set_without_vectors"]

GenerateEmbeddings(u) ==
    /\ thread[u].pc = "generate_embeddings"
    /\ \E ok \in BOOLEAN :
          /\ (mock_mode \/ thread[u].embedded = thread[u].nchunks) => ok
          /\ thread' = [thread EXCEPT ![u] = generate_embeddings(thread[u], ok)]
    /\ UNCHANGED <<storage, mock_mode, analyzer, services>>

\* process_log_file: milvus_service.insert_embeddings(log_id, embedding_data).
InsertEmbeddings(u) ==
    /\ thread[u].pc = "insert_embeddings"
    /\ \E store_up \in BOOLEAN :
          LET r == insert_embeddings(InsertArgs, store_up)
          IN thread' = [thread EXCEPT ![u].pc = IF r = "ids" THEN "set_completed"
                                                ELSE "set_without_vectors",
                                      ![u].store_up = store_up,
                                      ![u].insert = r]
    /\ UNCHANGED <<storage, mock_mode, analyzer, services>>

\* requests.post in generate_embedding and analyze_log is called without a
\* timeout: when the service accepts the request and never answers, the call
\* does not return.
NoResponse(u) ==
    /\ ~mock_mode
    /\ \/ thread[u].pc = "analyze_log"
       \/ thread[u].pc = "generate_embeddings" /\ thread[u].embedded < thread[u].nchunks
    /\ thread' = [thread EXCEPT ![u].pc = "waiting"]
    /\ UNCHANGED <<storage, mock_mode, analyzer, services>>

\* The steps of the request and the pipeline run of upload u.
Run(u) ==
    \/ Upload(u)
    \/ CreateRead1(u)
    \/ CreateRead2(u)
    \/ CreateWrite(u)
    \/ CreateStore(u)
    \/ CreateActivity(u)
    \/ StatusGet(u)
    \/ StatusSet(u)
    \/ AnalyzePcap(u)
    \/ AnalyzeLog(u)
    \/ Segment(u)
    \/ GenerateEmbeddings(u)
    \/ InsertEmbeddings(u)
    \/ NoResponse(u)

Next == \E u \in Uploads : Run(u)

Spec == Init /\ [][Next]_vars

\* One upload with its pipeline run, after an upload that was rejected; every
\* thread that can take a step takes one.
LiveInit ==
    /\ logs = EmptyDict
    /\ processingStatus = [u \in Uploads |-> "none"]
    /\ log_id_counter = 1
    /\ analysis_results = EmptyDict
    /\ analysis_id_counter = 1
    /\ embeddings = EmptyDict
    /\ activities = EmptyDict
    /\ activity_id_counter = 1
    /\ mock_mode \in BOOLEAN
    /\ thread = [u \in Uploads |->
                    IF u = 1 THEN [NewThread EXCEPT !.pc = "rejected", !.kind = "log"]
                    ELSE NewThread]
    /\ AnalyzerIdle
    /\ ServicesIdle

LiveSpec == LiveInit /\ [][Next]_vars /\ \A u \in Uploads : WF_vars(Run(u))

-----------------------------------------------------------------------------
(* The same program with the steps of create_activity told apart, and the  *)
(* accesses of create_log and create_analysis_result taken together: the    *)
(* runs in which no two logs and no two results draw the same id, and two   *)
(* activities can.  The LLM service is in mock mode (its constructor could  *)
(* not reach the server), so that no request is sent.                      *)

\* create_log / create_analysis_result, run without another thread in between.
CreateUninterrupted(u) ==
    /\ thread[u].pc \in CreateStages
    /\ LET t == thread[u]
           store == StoreOfStage(t.pc)
           id == CounterOf(store)
       IN /\ log_id_counter' = IF store = "logs" THEN id + 1 ELSE log_id_counter
          /\ analysis_id_counter' = IF store = "analysis_results" THEN id + 1
                                    ELSE analysis_id_counter
          /\ logs' = IF store = "logs" THEN (id :> u) @@ logs ELSE logs
          /\ processingStatus' = IF store = "logs"
                                 THEN [processingStatus EXCEPT ![u] = "pending"]
                                 ELSE processingStatus
          /\ analysis_results' = IF store = "analysis_results"
                                 THEN (id :> ResultData(t.pc, t)) @@ analysis_results
                                 ELSE analysis_results
          /\ thread' = [thread EXCEPT ![u].pc = After(t.pc, t.kind),
                                      ![u].log_id = IF store = "logs" THEN id ELSE t.log_id]
    /\ UNCHANGED <<activities, activity_id_counter, embeddings, mock_mode, analyzer, services>>

\* create_activity: `activity_id = self.activity_id_counter`.
ActivityRead1(u) ==
    /\ thread[u].pc \in ActivityStages
    /\ thread[u].sub = 1
    /\ thread' = [thread EXCEPT ![u].new_id = activity_id_counter, ![u].sub = 2]
    /\ UNCHANGED <<storage, mock_mode, analyzer, services>>

\* create_activity: `self.activity_id_counter += 1`, the read.
ActivityRead2(u) ==
    /\ thread[u].pc \in ActivityStages
    /\ thread[u].sub = 2
    /\ thread' = [thread EXCEPT ![u].tmp = activity_id_counter, ![u].sub = 3]
    /\ UNCHANGED <<storage, mock_mode, analyzer, services>>

\* create_activity: `self.activity_id_counter += 1`, the write.
ActivityWrite(u) ==
    /\ thread[u].pc \in ActivityStages
    /\ thread[u].sub = 3
    /\ activity_id_counter' = thread[u].tmp + 1
    /\ thread' = [thread EXCEPT ![u].sub = 4, ![u].tmp = 0]
    /\ UNCHANGED <<logs, processingStatus, log_id_counter, analysis_results,
                   analysis_id_counter, embeddings, activities, mock_mode, analyzer, services>>

\* create_activity: `self.activities[activity_id] = activity` and the return.
ActivityStore(u) ==
    /\ thread[u].pc \in ActivityStages
    /\ thread[u].sub = 4
    /\ activities' = (thread[u].new_id :> ActivityData(thread[u].pc, thread[u])) @@ activities
    /\ thread' = [thread EXCEPT ![u].pc = After(thread[u].pc, thread[u].kind),
                                ![u].sub = 1, ![u].new_id = 0]
    /\ UNCHANGED <<logs, processingStatus, log_id_counter, analysis_results,
                   analysis_id_counter, embeddings, activity_id_counter, mock_mode, analyzer, services>>

ActivitiesRun(u) ==
    \/ Upload(u)
    \/ CreateUninterrupted(u)
    \/ ActivityRead1(u)
    \/ ActivityRead2(u)
    \/ ActivityWrite(u)
    \/ ActivityStore(u)
    \/ StatusGet(u)
    \/ StatusSet(u)
    \/ AnalyzePcap(u)
    \/ AnalyzeLog(u)
    \/ Segment(u)
    \/ GenerateEmbeddings(u)
    \/ InsertEmbeddings(u)

ActivitiesNext == \E u \in Uploads : ActivitiesRun(u)

ActivitiesInit == Init /\ mock_mode

ActivitiesSpec == ActivitiesInit /\ [][ActivitiesNext]_vars

-----------------------------------------------------------------------------
(* _analyze_conversations run on every capture of up to MaxPackets packets, *)
(* one packet a second.                                                     *)

ConversationsInit ==
    /\ PipelineInit
    /\ analyzer_pc = "conversations"
    /\ seen = 0
    /\ conversations = << >>
    /\ conv_list = << >>
    /\ capture = [k \in KindNames |-> 0]
    /\ protocol_stats = [protocol_counts |-> EmptyDict, analyzed_packets |-> 0]
    /\ anomalies = << >>
    /\ ServicesIdle

\* `for packet in packets:` one packet.
ConversationsPacket ==
    /\ analyzer_pc = "conversations"
    /\ seen < MaxPackets
    /\ \E p \in PacketsAt(seen + 1) : conversations' = process_packet(conversations, p)
    /\ seen' = seen + 1
    /\ UNCHANGED <<pipeline, services, analyzer_pc, conv_list, capture, protocol_stats, anomalies>>

\* The end of the capture: the list is built, sorted and cut.
ConversationsReturn ==
    /\ analyzer_pc = "conversations"
    /\ conv_list' = top_conversations(conversations)
    /\ analyzer_pc' = "returned"
    /\ UNCHANGED <<pipeline, services, seen, conversations, capture, protocol_stats, anomalies>>

ConversationsNext == ConversationsPacket \/ ConversationsReturn

ConversationsSpec == ConversationsInit /\ [][ConversationsNext]_vars

-----------------------------------------------------------------------------
(* _detect_anomalies run on every capture of Captures with every           *)
(* protocol_stats of ProtocolStats.                                        *)

AnomaliesInit ==
    /\ PipelineInit
    /\ analyzer_pc = "anomalies"
    /\ seen = 0
    /\ conversations = << >>
    /\ conv_list = << >>
    /\ capture \in Captures
    /\ protocol_stats \in ProtocolStats
    /\ anomalies = << >>
    /\ ServicesIdle

DetectAnomalies ==
    /\ analyzer_pc = "anomalies"
    /\ anomalies' = detect_anomalies(capture, protocol_stats)
    /\ analyzer_pc' = "returned"
    /\ UNCHANGED <<pipeline, services, seen, conversations, conv_list, capture, protocol_stats>>

AnomaliesNext == DetectAnomalies

AnomaliesSpec == AnomaliesInit /\ [][AnomaliesNext]_vars

-----------------------------------------------------------------------------
(* analyze_pcap's _get_basic_stats and _analyze_conversations calls on      *)
(* every capture of up to MaxPackets packets of StatsPackets.              *)

\* Packets between "1.2" and "1.10" and packets without an IP layer, of one
\* size, at every time.
StatsPackets ==
    {p \in Packets : /\ p.len = 60
                     /\ {p.src, p.dst} \subseteq {<< >>, <<49, 46, 50>>, <<49, 46, 49, 48>>}}

StatsInit ==
    /\ PipelineInit
    /\ analyzer_pc = "basic_stats"
    /\ seen = 0
    /\ conversations = << >>
    /\ conv_list = << >>
    /\ capture = [k \in KindNames |-> 0]
    /\ protocol_stats = [protocol_counts |-> EmptyDict, analyzed_packets |-> 0]
    /\ anomalies = << >>
    /\ \E n \in 0..MaxPackets : packets \in [1..n -> StatsPackets]
    /\ basic_stats = EmptyDict
    /\ ParserIdle
    /\ AsideIdle

\* basic_stats = self._get_basic_stats(packets); an exception leaves analyze_pcap.
GetBasicStats ==
    /\ analyzer_pc = "basic_stats"
    /\ basic_stats' = _get_basic_stats(packets)
    /\ analyzer_pc' = IF basic_stats' = ZeroDivisionError THEN "raised"
                      ELSE "analyze_conversations"
    /\ UNCHANGED <<pipeline, parser, aside, packets, seen, conversations, conv_list, capture,
                   protocol_stats, anomalies>>

\* conversations = self._analyze_conversations(packets)
AnalyzeConversations ==
    /\ analyzer_pc = "analyze_conversations"
    /\ conv_list' = _analyze_conversations(packets)
    /\ analyzer_pc' = IF conv_list' = <<ZeroDivisionError>> THEN "raised" ELSE "returned"
    /\ UNCHANGED <<pipeline, services, seen, conversations, capture, protocol_stats,
                   anomalies>>

StatsNext == GetBasicStats \/ AnalyzeConversations

StatsSpec == StatsInit /\ [][StatsNext]_vars

-----------------------------------------------------------------------------
(* segment_log_for_embedding applied to every text of up to MaxTextLen      *)
(* tokens with every max_chunk_size of ChunkSizes.                          *)

Texts == UNION {[1..n -> Tokens] : n \in 0..MaxTextLen}

SegmenterInit ==
    /\ PipelineInit
    /\ AnalyzerIdle
    /\ StatsIdle
    /\ AsideIdle
    /\ parser_pc = "segment_log_for_embedding"
    /\ content \in Texts
    /\ max_chunk_size \in ChunkSizes
    /\ segments = << >>
    /\ valid = FALSE
    /\ parsed = None

SegmentLog ==
    /\ parser_pc = "segment_log_for_embedding"
    /\ segments' = segment_log_for_embedding(content, max_chunk_size)
    /\ parser_pc' = "returned"
    /\ UNCHANGED <<pipeline, analyzer, basics, aside, content, max_chunk_size, valid, parsed>>

SegmenterNext == SegmentLog

SegmenterSpec == SegmenterInit /\ [][SegmenterNext]_vars

-----------------------------------------------------------------------------
(* is_valid_telecom_log applied to the texts of ValidatorTexts: two runs of *)
(* equal lines, each run of a length around the sample of SampleLines.      *)

\* Blank lines, lines with and without a timestamp, with and without a
\* telecom keyword.
LineKinds ==
    {<< >>, <<"space">>, <<"x">>, <<"x", "space", "keyword">>,
     <<"timestamp", "space", "x">>, <<"timestamp", "space", "keyword">>}

RunLengths == {0, 1, SampleLines \div 2, SampleLines, SampleLines + 1}

\* n lines `line`, each ended by a newline.
RECURSIVE Repeated(_, _)
Repeated(line, n) ==
    IF n = 0 THEN << >> ELSE line \o <<"LF">> \o Repeated(line, n - 1)

ValidatorTexts ==
    {Repeated(l1, n1) \o Repeated(l2, n2) : l1, l2 \in LineKinds, n1, n2 \in RunLengths}

ValidatorInit ==
    /\ PipelineInit
    /\ AnalyzerIdle
    /\ StatsIdle
    /\ AsideIdle
    /\ parser_pc = "is_valid_telecom_log"
    /\ content \in ValidatorTexts
    /\ max_chunk_size = DefaultChunkSize
    /\ segments = << >>
    /\ valid = FALSE
    /\ parsed = None

IsValidTelecomLog ==
    /\ parser_pc = "is_valid_telecom_log"
    /\ valid' = is_valid_telecom_log(content)
    /\ parser_pc' = "returned"
    /\ UNCHANGED <<pipeline, analyzer, basics, aside, content, max_chunk_size, segments, parsed>>

ValidatorNext == IsValidTelecomLog

ValidatorSpec == ValidatorInit /\ [][ValidatorNext]_vars

-----------------------------------------------------------------------------
(* parse_line applied to every line of up to MaxLineLen tokens, and         *)
(* parse_log to these lines and to the texts of two of them.                *)

Lines == UNION {[1..n -> LineTokens] : n \in 0..MaxLineLen}

ShortLines == {line \in Lines : Len(line) <= 2}

ParseInit ==
    /\ PipelineInit
    /\ AnalyzerIdle
    /\ StatsIdle
    /\ AsideIdle
    /\ \/ parser_pc = "parse_line" /\ content \in Lines
       \/ /\ parser_pc = "parse_log"
          /\ content \in Lines \cup {l1 \o <<"LF">> \o l2 : l1, l2 \in ShortLines}
    /\ max_chunk_size = DefaultChunkSize
    /\ segments = << >>
    /\ valid = FALSE
    /\ parsed = None

ParseLine ==
    /\ parser_pc = "parse_line"
    /\ parsed' = parse_line(content)
    /\ parser_pc' = "parse_line returned"
    /\ UNCHANGED <<pipeline, analyzer, basics, aside, content, max_chunk_size, segments, valid>>

ParseLog ==
    /\ parser_pc = "parse_log"
    /\ segments' = parse_log(content)
    /\ parser_pc' = "parse_log returned"
    /\ UNCHANGED <<pipeline, analyzer, basics, aside, content, max_chunk_size, valid, parsed>>

ParseNext == ParseLine \/ ParseLog

ParseSpec == ParseInit /\ [][ParseNext]_vars

-----------------------------------------------------------------------------
(* Two threads in mock mode, each in one call of a mock generator (from     *)
(* analyze_log or generate_embedding of its pipeline run).  A call to the   *)
(* random module is one step: calls of different threads interleave.        *)

MockInit ==
    /\ PipelineInit
    /\ mock_mode
    /\ AnalyzerIdle
    /\ StatsIdle
    /\ ParserIdle
    /\ MocksIdle
    /\ QueriesIdle
    /\ TuningIdle

\* A thread enters generate_mock_analysis(log_content) or
\* generate_mock_embedding(text).
MockCall(c) ==
    /\ mock_call[c].pc = "idle"
    /\ \E generator \in {"generate_mock_analysis", "generate_mock_embedding"},
          text \in MockTexts :
          mock_call' = [mock_call EXCEPT ![c] = [pc |-> "seed", generator |-> generator,
                                                 text |-> text, values |-> << >>]]
    /\ UNCHANGED <<pipeline, analyzer, basics, parser, queries, tuning, random_state>>

\* seed = ...; random.seed(seed)
MockSeed(c) ==
    /\ mock_call[c].pc = "seed"
    /\ random_state' = seed_generator(mock_call[c].text, random_state)
    /\ mock_call' = [mock_call EXCEPT ![c].pc = "draw"]
    /\ UNCHANGED <<pipeline, analyzer, basics, parser, queries, tuning>>

\* One random.randint / random.choice / random.uniform of the call; after
\* the last one the result is built from the values drawn.
MockDraw(c) ==
    /\ mock_call[c].pc = "draw"
    /\ random_state' = [random_state EXCEPT !.drawn = @ + 1]
    /\ mock_call' = [mock_call EXCEPT
                        ![c].values = Append(@, drawn_value(random_state)),
                        ![c].pc = IF Len(mock_call[c].values) + 1 = MockDraws
                                  THEN "returned" ELSE "draw"]
    /\ UNCHANGED <<pipeline, analyzer, basics, parser, queries, tuning>>

MockNext == \E c \in MockCallers : MockCall(c) \/ MockSeed(c) \/ MockDraw(c)

MockSpec == MockInit /\ [][MockNext]_vars

-----------------------------------------------------------------------------
(* Calls of create_log, update_log_status and get_all_logs on one           *)
(* MemStorage, one after the other, in every order.                         *)

StorageInit == Init

\* create_log(log_data) as upload_log calls it; two calls can see the same
\* datetime.now().
StorageCreateLog ==
    /\ log_id_counter \in Uploads
    /\ logs' = (log_id_counter :> log_id_counter) @@ logs
    /\ log_id_counter' = log_id_counter + 1
    /\ processingStatus' = [processingStatus EXCEPT ![log_id_counter] = "pending"]
    /\ uploadedAt' = [uploadedAt EXCEPT ![log_id_counter] = [type |-> "datetime", at |-> now]]
    /\ now' \in {now, now + 1}
    /\ UNCHANGED <<analysis_results, analysis_id_counter, embeddings, activities,
                   activity_id_counter, mock_mode, thread, analyzer, basics, parser,
                   mocks, tuning, query>>

\* update_log_status(log_id, status) for a stored log.
StorageUpdateLogStatus ==
    /\ \E id \in DOMAIN logs, status \in Statuses :
          processingStatus' = [processingStatus EXCEPT ![logs[id]] = status]
    /\ UNCHANGED <<logs, log_id_counter, analysis_results, analysis_id_counter, embeddings,
                   activities, activity_id_counter, mock_mode, thread, analyzer, basics,
                   parser, mocks, tuning, queries>>

\* get_all_logs() as get_logs and search call it.
StorageGetAllLogs ==
    /\ query.calls < MaxQueries
    /\ LET got == get_all_logs(DOMAIN logs, uploadedAt)
       IN /\ query' = [calls |-> query.calls + 1, raised |-> got.raised, logs |-> got.logs]
          /\ uploadedAt' = got.fields
    /\ UNCHANGED <<pipeline, analyzer, basics, parser, mocks, tuning, now>>

StorageNext == StorageCreateLog \/ StorageUpdateLogStatus \/ StorageGetAllLogs

StorageSpec == StorageInit /\ [][StorageNext]_vars

-----------------------------------------------------------------------------
(* One fine-tuning job with simulated progress, for every dataset of up to  *)
(* MaxExamples examples and every num_train_epochs of 1..MaxEpochs, and     *)
(* simulate_job_completion calls at any time.                               *)

TuningInit == Init

\* start_fine_tuning(dataset_id, model_name, config): the job is stored as
\* running and the thread of _simulate_job_progress is started.
StartFineTuning ==
    /\ job = None
    /\ \E example_count \in 0..MaxExamples, epochs \in 1..MaxEpochs :
          job' = started_job(example_count, epochs)
    /\ simulation' = [pc |-> "epoch", epoch |-> 1, step |-> 0]
    /\ UNCHANGED <<pipeline, analyzer, basics, parser, mocks, queries>>

\* `for epoch in range(1, total_epochs + 1):` up to the loop over the steps;
\* the loop ends after the last epoch and when the job is not running.
SimulateEpoch ==
    /\ simulation.pc = "epoch"
    /\ IF simulation.epoch > job.total_epochs \/ job.status # "running"
       THEN /\ simulation' = [simulation EXCEPT !.pc = "complete"]
            /\ job' = job
       ELSE /\ job' = [job EXCEPT !.current_epoch = simulation.epoch]
            /\ simulation' = IF steps_per_epoch(job) >= 1
                             THEN [simulation EXCEPT !.pc = "step", !.step = 1]
                             ELSE [simulation EXCEPT !.epoch = @ + 1]
    /\ UNCHANGED <<pipeline, analyzer, basics, parser, mocks, queries>>

\* One step of an epoch: the thread returns when the job is not running;
\* it writes the progress, and an exception of the log line test ends it.
SimulateStep ==
    /\ simulation.pc = "step"
    /\ IF job.status # "running"
       THEN /\ simulation' = [simulation EXCEPT !.pc = "returned"]
            /\ job' = job
       ELSE LET per_epoch == steps_per_epoch(job)
                current_step == (simulation.epoch - 1) * per_epoch + simulation.step
            IN /\ job' = [job EXCEPT
                             !.current_step = current_step,
                             !.percentage_complete = percentage(current_step, job.total_steps),
                             !.loss = "set"]
               /\ simulation' =
                     IF LogLineRaises(simulation.step, per_epoch)
                     THEN [simulation EXCEPT !.pc = "ZeroDivisionError"]
                     ELSE IF simulation.step < per_epoch
                     THEN [simulation EXCEPT !.step = @ + 1]
                     ELSE [simulation EXCEPT !.pc = "epoch", !.epoch = @ + 1, !.step = 0]
    /\ UNCHANGED <<pipeline, analyzer, basics, parser, mocks, queries>>

\* "Complete the job": the status and the progress are written, then the
\* final metrics, whose eval_loss multiplies the loss (a TypeError when no
\* step has set it).
SimulateComplete ==
    /\ simulation.pc = "complete"
    /\ IF job.loss = "None"
       THEN /\ job' = completed_job(job)
            /\ simulation' = [simulation EXCEPT !.pc = "TypeError"]
       ELSE /\ job' = [completed_job(job) EXCEPT !.metrics = "final"]
            /\ simulation' = [simulation EXCEPT !.pc = "returned"]
    /\ UNCHANGED <<pipeline, analyzer, basics, parser, mocks, queries>>

\* simulate_job_completion(job_id, success) by another thread.
SimulateJobCompletion ==
    /\ job # None
    /\ \E success \in BOOLEAN :
          job' = IF success THEN [job EXCEPT !.status = "completed", !.metrics = "simulated"]
                 ELSE [job EXCEPT !.status = "failed"]
    /\ UNCHANGED <<pipeline, analyzer, basics, parser, mocks, queries, simulation>>

TuningNext ==
    \/ StartFineTuning
    \/ SimulateEpoch
    \/ SimulateStep
    \/ SimulateComplete
    \/ SimulateJobCompletion

TuningSpec == TuningInit /\ [][TuningNext]_vars

-----------------------------------------------------------------------------
(* What the storage shows for an artifact.                                 *)

\* The processingStatus of the log stored under id (MemStorage.get_log).
StatusOf(id) == IF id \in DOMAIN logs THEN processingStatus[logs[id]] ELSE "absent"

\* The results get_analysis_result_by_log_id(id) can find; it returns None
\* when there is none.
ResultIdsOf(id) == {r \in DOMAIN analysis_results : analysis_results[r].logId = id}

\* The activities of one type stored for an artifact.
ActivityIdsOf(id, type) ==
    {a \in DOMAIN activities : activities[a].logId = id /\ activities[a].activityType = type}

\* The embedding records stored for an artifact (MemStorage.get_embeddings_by_log_id).
EmbeddingIdsOf(id) == {e \in DOMAIN embeddings : embeddings[e].logId = id}

\* The reasons with which LLMService.analyze_log raises.
LlmErrors == {"llm unreachable", "llm status"}

Done(u) == thread[u].pc = "done"

\* The pipeline run of u is a log run whose analyze_log call returned.
LogAnalysed(u) == thread[u].kind = "log" /\ thread[u].segmented

-----------------------------------------------------------------------------
(* The claims.                                                             *)

\* One step of the status state machine of the specification.
AllowedStatusStep(s, t) ==
    \/ s = t
    \/ s = "absent" /\ t = "pending"
    \/ s = "pending" /\ t = "processing"
    \/ s = "processing" /\ t \in TerminalStatuses

\* C1: the processingStatus of every artifact is one of the five statuses and
\* changes only along pending -> processing -> {completed,
\* completed_without_vectors, error}; a terminal status is never changed.
C1_StatusStateMachine ==
    [][\A id \in DOMAIN logs' :
          /\ StatusOf(id)' \in Statuses
          /\ AllowedStatusStep(StatusOf(id), StatusOf(id)')]_vars

\* C2: when the analyze_log call of a run has failed, the status the run then
\* writes makes the artifact's status error, and when the run ends an activity
\* of type "error" with the artifact's id and the failure reason is stored.
C2_ReasoningFailureRecorded ==
    [][\A u \in Uploads :
          thread[u].err \in LlmErrors =>
              /\ (thread[u].pc = "set_error" /\ thread'[u].pc = "error_activity") =>
                    StatusOf(thread[u].log_id)' = "error"
              /\ (thread[u].pc = "error_activity" /\ thread'[u].pc = "done") =>
                    \E a \in ActivityIdsOf(thread[u].log_id, "error")' :
                        activities'[a].description[2] = thread[u].err]_vars

\* C3: an artifact whose status is error has no analysis result.
C3_ErrorHasNoResult ==
    \A id \in DOMAIN logs : StatusOf(id) = "error" => ResultIdsOf(id) = {}

\* C4: a log run whose analyze_log call succeeded and whose embedding calls
\* all failed ends with the artifact in completed_without_vectors and with an
\* analysis result stored for it.
C4_EmbeddingFailureDegrades ==
    \A u \in Uploads :
        (Done(u) /\ LogAnalysed(u) /\ thread[u].attempts > 0 /\ thread[u].embedded = 0) =>
            /\ StatusOf(thread[u].log_id) = "completed_without_vectors"
            /\ ResultIdsOf(thread[u].log_id) # {}

\* C5: when a log run has ended in completed_without_vectors, an activity of
\* type "error" for that artifact is stored.
C5_DegradationRecorded ==
    \A u \in Uploads :
        (Done(u) /\ thread[u].kind = "log" /\ thread[u].wrote = "completed_without_vectors") =>
            ActivityIdsOf(thread[u].log_id, "error") # {}

\* C6: a log run whose analyze_log call, embedding calls and vector-store
\* insert all succeed ends by writing the status completed.
C6_AllSucceedCompleted ==
    \A u \in Uploads :
        (/\ Done(u) /\ LogAnalysed(u)
         /\ thread[u].embedded = thread[u].nchunks
         /\ thread[u].store_up) =>
            thread[u].wrote = "completed"

\* C7: the status of an artifact is error only if the analyze_log call of a
\* run for it failed.
C7_ErrorOnlyFromReasoning ==
    \A id \in DOMAIN logs :
        StatusOf(id) = "error" =>
            \E u \in Uploads : thread[u].log_id = id /\ thread[u].err \in LlmErrors

\* C8: in the embedding stage of a log run an embedding call is made for
\* every chunk, whether or not the call for an earlier chunk failed.
C8_EveryChunkAttempted ==
    \A u \in Uploads :
        (Done(u) /\ LogAnalysed(u)) => thread[u].attempts = thread[u].nchunks

\* C9: when the insert_embeddings call of a log run has failed, an embedding
\* record with the identifier local-<index> is stored for every chunk of the
\* artifact, and an activity of type "error" for the artifact.
C9_LocalFallbackRecords ==
    \A u \in Uploads :
        (Done(u) /\ thread[u].insert = "TypeError") =>
            /\ \A i \in 1..thread[u].nchunks :
                  \E e \in EmbeddingIdsOf(thread[u].log_id) :
                      embeddings[e].vectorId = <<"local-", i>>
            /\ ActivityIdsOf(thread[u].log_id, "error") # {}

\* C10: within a log run the insert_embeddings call is made only after the
\* content has been segmented and the embedding call of every chunk has been
\* made.
C10_InsertAfterEmbeddings ==
    \A u \in Uploads :
        (thread[u].pc = "insert_embeddings" \/ thread[u].insert # "none") =>
            /\ thread[u].segmented
            /\ thread[u].attempts = thread[u].nchunks

\* A log of MaxChunks chunks whose insert_embeddings call has been made.
C10_Witness ==
    \E u \in Uploads :
        /\ thread[u].insert # "none"
        /\ thread[u].nchunks = MaxChunks
        /\ thread[u].attempts = MaxChunks

\* C11: when a run has ended, an upload activity, a processing activity and an
\* activity for the terminal status it wrote (type "error" for error, type
\* "analysis" for completed and completed_without_vectors) are stored for
\* its artifact.
C11_TransitionsHaveActivities ==
    \A u \in Uploads :
        Done(u) =>
            /\ ActivityIdsOf(thread[u].log_id, "upload") # {}
            /\ ActivityIdsOf(thread[u].log_id, "processing") # {}
            /\ ActivityIdsOf(thread[u].log_id,
                             IF thread[u].wrote = "error" THEN "error" ELSE "analysis") # {}

\* C12: a log object created in pending eventually has a terminal status,
\* when every thread that can take a step takes one.
C12_EventuallyTerminal ==
    \A u \in Uploads :
        (processingStatus[u] = "pending") ~> (processingStatus[u] \in TerminalStatuses)

\* C13: no two stored analysis results refer to the same artifact id, and
\* every stored analysis result refers to the id of a stored artifact.
C13_OneResultPerArtifact ==
    /\ \A r1, r2 \in DOMAIN analysis_results :
           analysis_results[r1].logId = analysis_results[r2].logId => r1 = r2
    /\ \A r \in DOMAIN analysis_results : analysis_results[r].logId \in DOMAIN logs

\* The log id a create_log call has drawn for upload v, 0 before it drew one.
DrawnLogId(v) ==
    IF thread[v].pc = "create_log" /\ thread[v].sub > 1 THEN thread[v].new_id
    ELSE thread[v].log_id

\* C14: the id a create_log call draws is not smaller than any id drawn
\* before, and the id under which it stores its log is not the id of a log
\* stored before (every artifact has its own id and none is overwritten).
C14_DistinctLogIds ==
    [][\A u \in Uploads :
          /\ (thread[u].pc = "create_log" /\ thread[u].sub = 1 /\ thread'[u].sub = 2) =>
                \A v \in Uploads : DrawnLogId(v) <= thread'[u].new_id
          /\ (thread[u].log_id = 0 /\ thread'[u].log_id # 0) =>
                thread'[u].log_id \notin DOMAIN logs]_vars

\* The conversations of the dict and of the returned list.
ConversationsSeen ==
    {conversations[i] : i \in DOMAIN conversations} \cup {conv_list[i] : i \in DOMAIN conv_list}

\* C15: after every packet, and in the returned list, the two direction
\* counters of every conversation add up to its total, for bytes and for
\* packets.
C15_DirectionsAddUp ==
    \A c \in ConversationsSeen :
        /\ c.a_to_b_bytes + c.b_to_a_bytes = c.bytes
        /\ c.a_to_b_packets + c.b_to_a_packets = c.packets

\* A capture of MaxPackets packets with a conversation that has bytes in both
\* directions.
C15_Witness ==
    /\ seen = MaxPackets
    /\ \E i \in DOMAIN conversations :
          conversations[i].a_to_b_bytes > 0 /\ conversations[i].b_to_a_bytes > 0

\* C16, as claimed: every returned conversation has ip_a < ip_b.
C16_StrictlyOrdered ==
    \A i \in DOMAIN conv_list : StrLess(conv_list[i].ip_a, conv_list[i].ip_b)

\* C16, amended: every returned conversation has ip_a <= ip_b: ip_a < ip_b
\* when its two addresses differ, and with equal addresses all its packets
\* are counted from a to b.
C16_OrderedOrSelf ==
    \A i \in DOMAIN conv_list :
        IF conv_list[i].ip_a = conv_list[i].ip_b
        THEN conv_list[i].b_to_a_packets = 0
        ELSE StrLess(conv_list[i].ip_a, conv_list[i].ip_b)

\* A returned list with a conversation of an address with itself and a
\* conversation between two addresses.
C16_Witness ==
    /\ \E i \in DOMAIN conv_list : conv_list[i].ip_a = conv_list[i].ip_b
    /\ \E i \in DOMAIN conv_list : conv_list[i].ip_a # conv_list[i].ip_b

\* C17: no two returned conversations have the same pair of addresses, in
\* either order.
C17_OnePerPair ==
    \A i, j \in DOMAIN conv_list :
        {conv_list[i].ip_a, conv_list[i].ip_b} = {conv_list[j].ip_a, conv_list[j].ip_b}
            => i = j

\* A returned list of two conversations, one of them with packets in both
\* directions.
C17_Witness ==
    /\ Len(conv_list) = 2
    /\ \E i \in DOMAIN conv_list :
          conv_list[i].a_to_b_packets > 0 /\ conv_list[i].b_to_a_packets > 0

\* The entries of the returned list with the given type.
AnomaliesOfType(type) == {i \in DOMAIN anomalies : anomalies[i].type = type}

\* C18: for a capture whose SYN packets (SYN without ACK) are more than 100
\* and more than 3 times its SYN-ACK packets, a "SYN Flood" anomaly is
\* returned, with severity high when they are more than 10 times the SYN-ACK
\* packets and medium otherwise; 150 SYN and 10 SYN-ACK packets give high.
C18_SynFloodReported ==
    (/\ analyzer_pc = "returned"
     /\ capture.syn_ack > 0
     /\ capture.syn > 3 * capture.syn_ack
     /\ capture.syn > 100) =>
        \E i \in AnomaliesOfType("SYN Flood") :
            anomalies[i].severity = IF capture.syn > 10 * capture.syn_ack THEN "high"
                                    ELSE "medium"

\* C19: the returned list has exactly one "ICMP Flood" entry when the ICMP
\* share of the analyzed packets is above 30% and the ICMP count above 100
\* (high above 60%, else medium), exactly one "DNS Amplification" entry
\* (medium) when there are more than 50 DNS responses of more than 500 bytes
\* on average, exactly one "IP Fragmentation" entry (low) when more than 100
\* packets are fragments, and no entry of a type whose condition does not
\* hold, whatever the other conditions are.
C19_RulesIndependent ==
    analyzer_pc = "returned" =>
        LET counts == protocol_stats.protocol_counts
            icmp == /\ "ICMP" \in DOMAIN counts
                    /\ 100 * counts["ICMP"] > 30 * protocol_stats.analyzed_packets
                    /\ counts["ICMP"] > 100
            responses == capture.dns_big + capture.dns_small
            dns == /\ responses > 50
                   /\ 600 * capture.dns_big + 400 * capture.dns_small > 500 * responses
            frag == capture.frag_mf + capture.frag_off > 100
        IN /\ Cardinality(AnomaliesOfType("ICMP Flood")) = IF icmp THEN 1 ELSE 0
           /\ \A i \in AnomaliesOfType("ICMP Flood") :
                 anomalies[i].severity =
                     IF 100 * counts["ICMP"] > 60 * protocol_stats.analyzed_packets
                     THEN "high" ELSE "medium"
           /\ Cardinality(AnomaliesOfType("DNS Amplification")) = IF dns THEN 1 ELSE 0
           /\ \A i \in AnomaliesOfType("DNS Amplification") : anomalies[i].severity = "medium"
           /\ Cardinality(AnomaliesOfType("IP Fragmentation")) = IF frag THEN 1 ELSE 0
           /\ \A i \in AnomaliesOfType("IP Fragmentation") : anomalies[i].severity = "low"

\* A capture for which the three anomalies are returned together.
C19_Witness ==
    /\ analyzer_pc = "returned"
    /\ AnomaliesOfType("ICMP Flood") # {}
    /\ AnomaliesOfType("DNS Amplification") # {}
    /\ AnomaliesOfType("IP Fragmentation") # {}

\* C20: no failure of a sub-extractor leaves analyze_pcap as an exception.
C20_SubExtractorFailureContained ==
    \A u \in Uploads : thread[u].err \notin SubExtractors


\* C21: _get_basic_stats and the derived stats of a conversation never divide
\* by zero: no capture makes analyze_pcap raise in them; an empty capture has
\* 0 packets, duration 0 and both averages 0; a capture of one packet, or
\* whose last packet has the time of the first, has duration 0 and 0 packets
\* per second; a conversation that ends when it started has duration 0 and
\* rates 0.
C21_NoDivisionByZero ==
    /\ analyzer_pc # "raised"
    /\ analyzer_pc \in {"analyze_conversations", "returned"} =>
          /\ basic_stats.total_packets = Len(packets)
          /\ packets = << >> =>
                /\ basic_stats.capture_duration = 0
                /\ basic_stats.average_packet_size = 0
                /\ basic_stats.average_packets_per_second = 0
          /\ packets # << >> /\ packets[1].time = packets[Len(packets)].time =>
                /\ basic_stats.capture_duration = 0
                /\ basic_stats.average_packets_per_second = 0
    /\ analyzer_pc = "returned" =>
          \A i \in DOMAIN conv_list :
              conv_list[i].end_time = conv_list[i].start_time =>
                  /\ conv_list[i].duration = 0
                  /\ conv_list[i].packets_per_sec = 0
                  /\ conv_list[i].bytes_per_sec = 0

\* A capture of several packets whose last has the time of the first, with a
\* conversation that ends when it started and one that lasts.
C21_Witness ==
    /\ analyzer_pc = "returned"
    /\ Len(packets) > 1
    /\ packets[1].time = packets[Len(packets)].time
    /\ \E i \in DOMAIN conv_list : conv_list[i].duration = 0
    /\ \E i \in DOMAIN conv_list : conv_list[i].packets_per_sec > 0

\* chunk.split("\n"): the lines of a chunk.
RECURSIVE SplitOnNewline(_, _)
SplitOnNewline(s, line) ==
    IF s = << >> THEN <<line>>
    ELSE IF Head(s) = "LF" THEN <<line>> \o SplitOnNewline(Tail(s), << >>)
    ELSE SplitOnNewline(Tail(s), Append(line, Head(s)))

LinesOfChunk(chunk) == SplitOnNewline(chunk, << >>)

RECURSIVE LinesOfChunks(_)
LinesOfChunks(chunks) ==
    IF chunks = << >> THEN << >>
    ELSE LinesOfChunk(Head(chunks)) \o LinesOfChunks(Tail(chunks))

\* C22: Every returned chunk of more than one line is, with the newlines that
\* join its lines, at most max_chunk_size long.
C22_ChunkWithinMax ==
    parser_pc = "returned" =>
        \A i \in DOMAIN segments :
            Len(LinesOfChunk(segments[i])) > 1 => StrLen(segments[i]) <= max_chunk_size

\* C23 as stated: the returned chunks joined by newlines are the text.
C23_TextRoundTrip ==
    parser_pc = "returned" => JoinLines(segments) = content

\* C23: The lines of the returned chunks, in order, are the lines of the
\* text, each whole and in one chunk, and a line longer than max_chunk_size
\* is a chunk of its own.
C23_LinesRoundTrip ==
    parser_pc = "returned" =>
        /\ LinesOfChunks(segments) = splitlines(content)
        /\ \A i \in DOMAIN segments :
              \A k \in DOMAIN LinesOfChunk(segments[i]) :
                  StrLen(LinesOfChunk(segments[i])[k]) > max_chunk_size =>
                      Len(LinesOfChunk(segments[i])) = 1

\* A text that ends with a line boundary and has an oversized line between
\* other lines came back in several chunks.
C23_Witness ==
    /\ parser_pc = "returned"
    /\ content # << >> /\ content[Len(content)] = "LF"
    /\ Len(segments) > 1
    /\ \E i \in DOMAIN segments : StrLen(segments[i]) > max_chunk_size

\* C26: In every returned chunk only the first line can have a timestamp.
C26_TimestampStartsChunk ==
    parser_pc = "returned" =>
        \A i \in DOMAIN segments :
            \A k \in DOMAIN LinesOfChunk(segments[i]) :
                (\E c \in DOMAIN LinesOfChunk(segments[i])[k] :
                    LinesOfChunk(segments[i])[k][c] = "timestamp") => k = 1

\* The sample of a text: its first SampleLines non-blank lines.
SampleOf(text) == FirstLines(NonBlank(splitlines(text)), SampleLines)

\* C24: A text is accepted only if at least half of its first 20 non-blank
\* lines have a timestamp and a telecom keyword occurs in it; an empty text
\* is not accepted.
C24_ValidNeedsKeyword ==
    parser_pc = "returned" /\ valid =>
        /\ content # << >>
        /\ 2 * Cardinality({i \in DOMAIN SampleOf(content) : HasTimestamp(SampleOf(content)[i])})
              >= Len(SampleOf(content))
        /\ \E c \in DOMAIN content : content[c] = "keyword"

\* The patterns that match a line, by their place in the priority order.
MatchingPatterns(line) == {i \in DOMAIN Patterns : match(Patterns[i], line) # None}

\* C25: parse_line returns a record for every line, its message is not
\* empty, a line no pattern matches gives the record with only the message,
\* equal to the line, and otherwise the first pattern that matches gives the
\* record.
C25_ParseLineTotal ==
    parser_pc = "parse_line returned" =>
        /\ parsed # None
        /\ parsed.message # << >>
        /\ MatchingPatterns(content) = {} => parsed = [message |-> content]
        /\ \A i \in MatchingPatterns(content) :
              (\A j \in MatchingPatterns(content) : i <= j) =>
                  parsed = match(Patterns[i], content)

\* C27: no step replaces or removes a stored analysis result, and after every
\* step each artifact whose status is completed or completed_without_vectors
\* has a stored analysis result with its id as logId.
C27_ResultsNeverOverwritten ==
    [][/\ \A r \in DOMAIN analysis_results :
             r \in DOMAIN analysis_results' /\ analysis_results'[r] = analysis_results[r]
       /\ \A id \in DOMAIN logs' :
             StatusOf(id)' \in {"completed", "completed_without_vectors"} =>
                 ResultIdsOf(id)' # {}]_vars

\* C28: two calls of the same mock generator with the same text that have
\* returned have built their results from the same values.
C28_MockDependsOnTextOnly ==
    \A c1, c2 \in MockCallers :
        (/\ mock_call[c1].pc = "returned" /\ mock_call[c2].pc = "returned"
         /\ mock_call[c1].generator = mock_call[c2].generator
         /\ mock_call[c1].text = mock_call[c2].text) =>
            mock_call[c1].values = mock_call[c2].values

\* C29: a get_all_logs call leaves the stored logs as they are, the type of
\* uploadedAt included, does not raise, and returns every stored log once,
\* latest first.
C29_GetAllLogsReadOnly ==
    [][query'.calls # query.calls =>
          /\ uploadedAt' = uploadedAt
          /\ logs' = logs /\ processingStatus' = processingStatus
          /\ query'.raised = "none"
          /\ Len(query'.logs) = Cardinality(DOMAIN logs)
          /\ \A id \in DOMAIN logs : \E k \in DOMAIN query'.logs : query'.logs[k] = id
          /\ \A k, l \in DOMAIN query'.logs :
                k < l => uploadedAt[logs[query'.logs[k]]].at
                             >= uploadedAt[logs[query'.logs[l]]].at]_vars

\* The thread of _simulate_job_progress has ended, by a return or by an
\* exception.
SimulationEnded == simulation.pc \in {"returned", "ZeroDivisionError", "TypeError"}

\* C30: when the simulation thread of a job has ended and no
\* simulate_job_completion call has marked the job, the job is completed at
\* 100 percent with its final metrics; a running job is at 99 percent at most.
C30_JobCompletes ==
    job # None =>
        /\ (SimulationEnded /\ job.status # "failed" /\ job.metrics # "simulated") =>
              /\ job.status = "completed"
              /\ job.percentage_complete = 100
              /\ job.metrics = "final"
        /\ job.status = "running" => job.percentage_complete <= RunningCap
====
